---- MODULE Spec2Model ----
(***************************************************************************)
(* RangeMap[RT, VT] of pkg/sfu/utils/rangemap.go: an ordered list of       *)
(* range records over a wrapping key space, the last record being the     *)
(* open range.  Keys are values of the unsigned type RT, values are        *)
(* values of the unsigned type VT; all arithmetic on them wraps.           *)
(***************************************************************************)
EXTENDS Integers, Sequences, FiniteSets, TLC

(* ---- bounds of the model ---- *)

\* half the number of keys of the key type RT: 2^(W-1) for a W-bit type
\* (W = 3 here; uint32 | uint64 in the source)
KeyHalf == 4

\* the number of values of the value type VT: 2^VW for a VW-bit type
\* (VW = 2 here, narrower than RT; uint32 | uint64 in the source)
ValueCount == 4

\* largest size handed to NewRangeMap
MaxSize == 2

\* number of method calls made on the map after construction
MaxOps == 3

\* largest decrement handed to DecValue
MaxDec == 2

(* ---- program constants ---- *)

minRanges == 1

(* ---- fixed-width arithmetic ---- *)

\* halfRange: 1 << (bits(RT) - 1)
halfRange == KeyHalf

RTMod == 2 * halfRange

VTMod == ValueCount

RT == 0 .. (RTMod - 1)

VT == 0 .. (VTMod - 1)

\* sizes handed to NewRangeMap: negative, zero and positive ones
SizeInputs == -1 .. MaxSize

\* values handed to ClearAndResetValue: zero, a small one, the largest of VT
ResetInputs == {0, 1, VTMod - 1}

\* decrements handed to DecValue
DecInputs == 0 .. MaxDec

\* widths (endExclusive - startInclusive, wrapping) of the ranges handed to
\* ExcludeRange: zero, the small widths 1 and 2, and the widths just below,
\* at and just above halfRange
WidthInputs == {0, 1, 2, halfRange - 1, halfRange, halfRange + 1}

\* a + b on RT (unsigned, wraps)
AddRT(a, b) == (a + b) % RTMod

\* a - b on RT (unsigned, wraps)
SubRT(a, b) == (a - b + RTMod) % RTMod

\* a + b on VT (unsigned, wraps)
AddVT(a, b) == (a + b) % VTMod

\* a - b on VT (unsigned, wraps)
SubVT(a, b) == (a - b + VTMod) % VTMod

\* the conversion VT(x) of an RT value: truncation to the width of VT
ToVT(x) == x % VTMod

\* the size taken as given, without the lower limit minRanges
ClampSize_noClamp(sz) == sz

\* int(math.Max(float64(size), float64(minRanges))); float64 is exact on the
\* sizes of the model (it is exact up to 2^53)
ClampSize(sz) == IF sz > minRanges THEN sz ELSE minRanges

(* ---- state ---- *)

\* size, ranges: the fields of RangeMap (halfRange is the constant above).
\* adjusted: the open value was lowered since the last initRanges, by a
\*   nonzero DecValue or by a wrapping addition in ExcludeRange.
\* last: the call that produced the current state and what it returned.
\* ops: number of calls made since construction.
\* v0, excluded: the value the last initRanges set and the exclusions
\*   ExcludeRange accepted since then, oldest first; each is kept as its width
\*   and as back, the number of keys from its end forward to the open range's
\*   start (counted up to halfRange, the reach of a key behind the start).
\*   The exclusions are recorded while the value is unadjusted, and dropped
\*   once it is adjusted.
VARIABLES size, ranges, adjusted, last, ops, v0, excluded

vars == <<size, ranges, adjusted, last, ops, v0, excluded>>

rangeVal(s, e, v) == [start |-> s, end |-> e, value |-> v]

\* the record of a call: the method, its argument where it has a single one
\* (NewRangeMap, ClearAndResetValue, DecValue), the value and error it returned, the
\* branch ExcludeRange took ("rejected", "merge", "split"; "none" for the
\* other methods) and the number of range records prune dropped during it;
\* s and e are the bounds of the range an accepted ExcludeRange excluded
Call(op, arg, val, err, effect, dropped) ==
    [op |-> op, arg |-> arg, val |-> val, err |-> err,
     effect |-> effect, dropped |-> dropped, s |-> 0, e |-> 0]

\* the record of an accepted call ExcludeRange(s, e)
ExcludeCall(s, e, effect, dropped) ==
    [Call("ExcludeRange", 0, 0, "nil", effect, dropped) EXCEPT !.s = s, !.e = e]

\* initRanges that drops its argument and starts the open range at value 0
initRanges_ignoresVal(val) == << rangeVal(0, 0, 0) >>

initRanges(val) == << rangeVal(0, 0, val) >>

(* ---- prune ---- *)

\* prune that forgets the open range when it counts: keeps size + 2 records
prune_keepsOneMore(rs, sz) ==
    IF Len(rs) > sz + 2
    THEN SubSeq(rs, Len(rs) - sz - 1, Len(rs))
    ELSE rs

\* prune that keeps the oldest size + 1 records and drops the newest ones
prune_keepsOldest(rs, sz) ==
    IF Len(rs) > sz + 1
    THEN SubSeq(rs, 1, sz + 1)
    ELSE rs

prune(rs, sz) ==
    IF Len(rs) > sz + 1
    THEN SubSeq(rs, Len(rs) - sz, Len(rs))
    ELSE rs

(* ---- ExcludeRange ---- *)

\* line 84: zero width, or width above halfRange
BadWidth(s, e) == e = s \/ SubRT(e, s) > halfRange

\* line 89: start of the open range is after the start of the exclusion
OpenStartsAfter(lr, s) == lr.start > s

\* the width subtracted from the open value where the source adds it
NewValue_subtracts(lr, s, e) == SubVT(lr.value, ToVT(SubRT(e, s)))

\* line 94
NewValue(lr, s, e) == AddVT(lr.value, ToVT(SubRT(e, s)))

\* line 94, whether the addition wrapped
NewValueWraps(lr, s, e) == lr.value + ToVT(SubRT(e, s)) >= VTMod

\* the open range moved without its value being raised (line 99 left out)
MoveOpen_keepsValue(rs, s, e) ==
    LET n == Len(rs) IN
    [rs EXCEPT ![n] = rangeVal(e, rs[n].end, rs[n].value)]

\* lines 97-100: move the open range
MoveOpen(rs, s, e) ==
    LET n == Len(rs) IN
    [rs EXCEPT ![n] = rangeVal(e, rs[n].end, NewValue(rs[n], s, e))]

\* the new open range given the old open value (lr.value for newValue at
\* line 110)
SplitOpen_keepsValue(rs, s, e) ==
    LET n == Len(rs) IN
    Append([rs EXCEPT ![n] = rangeVal(rs[n].start, SubRT(s, 1), rs[n].value)],
           rangeVal(e, 0, rs[n].value))

\* the open range closed at startInclusive where the source closes it at
\* startInclusive - 1
SplitOpen_closesAtStart(rs, s, e) ==
    LET n == Len(rs) IN
    Append([rs EXCEPT ![n] = rangeVal(rs[n].start, s, rs[n].value)],
           rangeVal(e, 0, NewValue(rs[n], s, e)))

\* lines 103-111: close the open range, append a new open one (before prune)
SplitOpen(rs, s, e) ==
    LET n == Len(rs) IN
    Append([rs EXCEPT ![n] = rangeVal(rs[n].start, SubRT(s, 1), rs[n].value)],
           rangeVal(e, 0, NewValue(rs[n], s, e)))

\* the accepted exclusions once ExcludeRange(s, e) is accepted on an open
\* range starting at start: the open range's start moves forward by
\* (s - start) + (e - s) keys, which puts every earlier exclusion that much
\* further back, and the new exclusion ends at the new start
Recorded(ex, start, s, e) ==
    LET adv == SubRT(s, start) + SubRT(e, s)
        far(b) == IF b + adv > halfRange THEN halfRange ELSE b + adv
    IN Append([i \in 1 .. Len(ex) |-> [back |-> far(ex[i].back), width |-> ex[i].width]],
              [back |-> 0, width |-> SubRT(e, s)])

ExcludeRangeErr(rs, s, e) ==
    IF BadWidth(s, e) THEN "ReversedOrder"
    ELSE IF OpenStartsAfter(rs[Len(rs)], s) THEN "ReversedOrder"
    ELSE "nil"

\* ExcludeRange that closes the open range (line 104) before it compares the
\* starts (line 89)
ExcludeRangeRanges_closesFirst(rs, sz, s, e) ==
    IF BadWidth(s, e) THEN rs
    ELSE IF OpenStartsAfter(rs[Len(rs)], s)
         THEN [rs EXCEPT ![Len(rs)] = rangeVal(rs[Len(rs)].start, SubRT(s, 1), rs[Len(rs)].value)]
    ELSE IF rs[Len(rs)].start = s THEN MoveOpen(rs, s, e)
    ELSE prune(SplitOpen(rs, s, e), sz)

\* the ranges list after ExcludeRange(s, e)
ExcludeRangeRanges(rs, sz, s, e) ==
    IF BadWidth(s, e) THEN rs
    ELSE IF OpenStartsAfter(rs[Len(rs)], s) THEN rs
    ELSE IF rs[Len(rs)].start = s THEN MoveOpen(rs, s, e)
    ELSE prune(SplitOpen(rs, s, e), sz)

\* the branch ExcludeRange(s, e) takes: an early return with the error
\* (lines 85, 91), the move of the open range (lines 97-100) or the split
\* (lines 103-114)
ExcludeRangeEffect(rs, s, e) ==
    IF ExcludeRangeErr(rs, s, e) # "nil" THEN "rejected"
    ELSE IF rs[Len(rs)].start = s THEN "merge"
    ELSE "split"

\* the number of records the call to prune at line 113 drops
ExcludeRangeDropped(rs, sz, s, e) ==
    IF ExcludeRangeEffect(rs, s, e) = "split"
    THEN Len(SplitOpen(rs, s, e)) - Len(prune(SplitOpen(rs, s, e), sz))
    ELSE 0

(* ---- GetValue ---- *)

\* line 120
InOpenRange(key, open) == key >= open.start

\* line 125
TooOld(key, first) == key < first.start

\* line 135
InClosedRange(key, rv) ==
    SubRT(key, rv.start) < halfRange /\ SubRT(rv.end, key) < halfRange

\* lines 142-144
InExcludedGap(key, rvPrev, rv) ==
    LET beforeDiff == SubRT(key, rvPrev.end)
        afterDiff == SubRT(rv.start, key)
    IN beforeDiff > 0 /\ beforeDiff < halfRange /\ afterDiff > 0 /\ afterDiff < halfRange

RECURSIVE ScanRanges(_, _, _)
\* lines 131-151, idx counted from 1
ScanRanges(rs, key, idx) ==
    IF idx = 0 THEN [val |-> 0, err |-> "KeyNotFound"]
    ELSE IF idx # Len(rs) /\ InClosedRange(key, rs[idx])
         THEN [val |-> rs[idx].value, err |-> "nil"]
    ELSE IF idx > 1 /\ InExcludedGap(key, rs[idx - 1], rs[idx])
         THEN [val |-> 0, err |-> "KeyExcluded"]
    ELSE ScanRanges(rs, key, idx - 1)

GetValueOf(rs, key) ==
    IF Len(rs) # 0 /\ InOpenRange(key, rs[Len(rs)])
    THEN [val |-> rs[Len(rs)].value, err |-> "nil"]
    ELSE IF Len(rs) # 0 /\ TooOld(key, rs[1])
    THEN [val |-> 0, err |-> "KeyTooOld"]
    ELSE ScanRanges(rs, key, Len(rs))

(* ---- the state machine ---- *)

Init ==
    \E sz \in SizeInputs :
        /\ size = ClampSize(sz)
        /\ ranges = initRanges(0)
        /\ adjusted = FALSE
        /\ last = Call("NewRangeMap", sz, 0, "nil", "none", 0)
        /\ ops = 0
        /\ v0 = 0
        /\ excluded = << >>

ClearAndResetValue(val) ==
    /\ ops < MaxOps
    /\ ranges' = initRanges(val)
    /\ adjusted' = FALSE
    /\ last' = Call("ClearAndResetValue", val, 0, "nil", "none", 0)
    /\ ops' = ops + 1
    /\ v0' = val
    /\ excluded' = << >>
    /\ UNCHANGED size

\* DecValue that decrements the first record where the source decrements the
\* last one
DecValue_decrementsFirst(dec) ==
    /\ ops < MaxOps
    /\ ranges' = [ranges EXCEPT ![1].value = SubVT(@, dec)]
    /\ adjusted' = (adjusted \/ dec # 0)
    /\ last' = Call("DecValue", dec, 0, "nil", "none", 0)
    /\ ops' = ops + 1
    /\ excluded' = IF adjusted' THEN << >> ELSE excluded
    /\ UNCHANGED <<size, v0>>

DecValue(dec) ==
    /\ ops < MaxOps
    /\ ranges' = [ranges EXCEPT ![Len(ranges)].value = SubVT(@, dec)]
    /\ adjusted' = (adjusted \/ dec # 0)
    /\ last' = Call("DecValue", dec, 0, "nil", "none", 0)
    /\ ops' = ops + 1
    /\ excluded' = IF adjusted' THEN << >> ELSE excluded
    /\ UNCHANGED <<size, v0>>

ExcludeRange(startInclusive, endExclusive) ==
    LET err == ExcludeRangeErr(ranges, startInclusive, endExclusive) IN
    /\ ops < MaxOps
    /\ ranges' = ExcludeRangeRanges(ranges, size, startInclusive, endExclusive)
    /\ adjusted' = (adjusted \/
                     (/\ err = "nil"
                      /\ NewValueWraps(ranges[Len(ranges)], startInclusive, endExclusive)))
    /\ last' = IF err = "nil"
               THEN ExcludeCall(startInclusive, endExclusive,
                                ExcludeRangeEffect(ranges, startInclusive, endExclusive),
                                ExcludeRangeDropped(ranges, size, startInclusive, endExclusive))
               ELSE Call("ExcludeRange", 0, 0, err, "rejected", 0)
    /\ ops' = ops + 1
    /\ excluded' = IF adjusted' THEN << >>
                   ELSE IF err = "nil"
                        THEN Recorded(excluded, ranges[Len(ranges)].start,
                                      startInclusive, endExclusive)
                        ELSE excluded
    /\ UNCHANGED <<size, v0>>

\* GetValue that drops the oldest record once it has scanned past it
GetValue_dropsOldest(key) ==
    LET got == GetValueOf(ranges, key) IN
    /\ ops < MaxOps
    /\ ranges' = IF Len(ranges) > 1 /\ got.err = "nil" THEN Tail(ranges) ELSE ranges
    /\ last' = Call("GetValue", 0, got.val, got.err, "none", 0)
    /\ ops' = ops + 1
    /\ UNCHANGED <<size, adjusted, v0, excluded>>

GetValue(key) ==
    LET got == GetValueOf(ranges, key) IN
    /\ ops < MaxOps
    /\ last' = Call("GetValue", 0, got.val, got.err, "none", 0)
    /\ ops' = ops + 1
    /\ UNCHANGED <<size, ranges, adjusted, v0, excluded>>

Next ==
    \/ \E val \in ResetInputs : ClearAndResetValue(val)
    \/ \E dec \in DecInputs : DecValue(dec)
    \/ \E s \in RT, w \in WidthInputs : ExcludeRange(s, AddRT(s, w))
    \/ \E key \in RT : GetValue(key)

Spec == Init /\ [][Next]_vars

\* the open range: the last record
Open == ranges[Len(ranges)]

TypeOK ==
    /\ size \in 1 .. MaxSize
    /\ Len(ranges) >= 1
    /\ \A i \in 1 .. Len(ranges) :
          ranges[i].start \in RT /\ ranges[i].end \in RT /\ ranges[i].value \in VT
    /\ adjusted \in BOOLEAN
    /\ ops \in 0 .. MaxOps
    /\ v0 \in VT
    /\ \A i \in 1 .. Len(excluded) :
          excluded[i].back \in 0 .. halfRange /\ excluded[i].width \in 1 .. halfRange

(***************************************************************************)
(* Properties                                                              *)
(***************************************************************************)

\* a is on or after b in circular order: (a - b) mod 2^W < halfRange
OnOrAfter(a, b) == SubRT(a, b) < halfRange

\* a precedes b in circular order: 0 < (b - a) mod 2^W < halfRange
Precedes(a, b) == SubRT(b, a) > 0 /\ SubRT(b, a) < halfRange

\* C1: the number of range records is at least 1 and at most capacity + 1,
\* capacity being max(size argument, 1).
C1_BoundedSize ==
    /\ size >= 1
    /\ Len(ranges) >= 1
    /\ Len(ranges) <= size + 1

\* C1 witness: a split has just overflowed the list and prune dropped the
\* oldest record, leaving exactly capacity + 1 records.
C1_Witness ==
    /\ last.op = "ExcludeRange"
    /\ last.effect = "split"
    /\ last.dropped = 1
    /\ Len(ranges) = size + 1

\* C2: a call of ExcludeRange that returns ReversedOrder leaves the ranges
\* list exactly as it was.
C2_AtomicRejection ==
    [][(last'.op = "ExcludeRange" /\ last'.err = "ReversedOrder") => ranges' = ranges]_vars

\* C2 witness: ExcludeRange has been rejected on a map that holds a closed
\* range besides the open one.
C2_Witness ==
    /\ last.op = "ExcludeRange"
    /\ last.err = "ReversedOrder"
    /\ Len(ranges) >= 2

\* C3: every key on or after the open range's start in circular order gets
\* the open range's value from GetValue, with no error.
C3_WrapOpenLookup ==
    \A key \in RT :
        OnOrAfter(key, Open.start) =>
            GetValueOf(ranges, key) = [val |-> Open.value, err |-> "nil"]

\* C4: ExcludeRange compares its start with the open range's start in
\* circular order: ReversedOrder when the start precedes it, accepted when
\* the width is nonzero and at most halfRange and the start is on or after it.
C4_CircularStartOrder ==
    \A s \in RT, e \in RT :
        /\ Precedes(s, Open.start) => ExcludeRangeErr(ranges, s, e) = "ReversedOrder"
        /\ (e # s /\ SubRT(e, s) <= halfRange /\ OnOrAfter(s, Open.start))
               => ExcludeRangeErr(ranges, s, e) = "nil"

\* C5: ExcludeRange fails with ReversedOrder when the width is zero and when
\* the width is halfRange or more.
C5_WidthRejected ==
    \A s \in RT, e \in RT :
        (e = s \/ SubRT(e, s) >= halfRange) => ExcludeRangeErr(ranges, s, e) = "ReversedOrder"

\* C6: GetValue never returns KeyNotFound, for any key in any reachable state.
C6_NeverKeyNotFound ==
    \A key \in RT : GetValueOf(ranges, key).err # "KeyNotFound"

\* C7: every closed range is narrower than halfRange:
\* (end - start) mod 2^W < halfRange.
C7_ClosedWidth ==
    \A i \in 1 .. (Len(ranges) - 1) :
        SubRT(ranges[i].end, ranges[i].start) < halfRange

\* the values of consecutive records never decrease
ValuesNonDecreasing ==
    \A i \in 1 .. (Len(ranges) - 1) : ranges[i + 1].value >= ranges[i].value

\* C8 as stated: after any sequence of ExcludeRange, DecValue and
\* ClearAndResetValue calls the values of consecutive records never decrease.
C8_ValueMonotone == ValuesNonDecreasing

\* C8 amended: the values of consecutive records never decrease as long as,
\* since the last (re)initialisation, no nonzero DecValue was applied and no
\* addition of a width to the open value wrapped.
C8_ValueMonotoneUnadjusted == (~adjusted) => ValuesNonDecreasing

\* C8 witness: two splits without DecValue or wrap, the values strictly rising
\* along the three records.
C8_Witness ==
    /\ ~adjusted
    /\ last.op = "ExcludeRange"
    /\ Len(ranges) = 3
    /\ ranges[1].value < ranges[2].value
    /\ ranges[2].value < ranges[3].value

\* C9 as stated: for consecutive records prev, next, prev.end circularly
\* precedes next.start and prev.start circularly precedes next.start.
C9_OrderingCircular ==
    \A i \in 1 .. (Len(ranges) - 1) :
        /\ Precedes(ranges[i].end, ranges[i + 1].start)
        /\ Precedes(ranges[i].start, ranges[i + 1].start)

\* C9 amended: every closed record has start <= end as plain unsigned
\* integers, and in the state a split-case ExcludeRange leaves, the new open
\* range starts 2 to halfRange + 1 keys after the end of the record it just
\* closed, counted in the wrapping key space (the excluded gap is 1 to
\* halfRange keys wide).  Later merge-case calls move the open start further,
\* so the records need not be in circular start order nor stay disjoint.
C9_OrderingGaps ==
    /\ \A i \in 1 .. (Len(ranges) - 1) : ranges[i].start <= ranges[i].end
    /\ (last.op = "ExcludeRange" /\ last.effect = "split") =>
           /\ SubRT(Open.start, ranges[Len(ranges) - 1].end) >= 2
           /\ SubRT(Open.start, ranges[Len(ranges) - 1].end) <= halfRange + 1

\* C9 witness: a split whose end wrapped, so that the open range starts at a
\* numerically smaller key than the closed range before it.
C9_Witness ==
    /\ last.op = "ExcludeRange"
    /\ last.effect = "split"
    /\ Len(ranges) = 3
    /\ Open.start < ranges[2].start

\* C10: a key that is not in the open range and circularly precedes the
\* start of the earliest retained range makes GetValue fail with KeyTooOld.
C10_KeyTooOld ==
    \A key \in RT :
        (~OnOrAfter(key, Open.start) /\ Precedes(key, ranges[1].start))
            => GetValueOf(ranges, key).err = "KeyTooOld"

\* key lies strictly between the end of prev and the start of next, counted
\* in the wrapping key space
StrictlyBetween(key, prev, next) ==
    SubRT(key, prev.end) > 0 /\ SubRT(key, prev.end) < SubRT(next.start, prev.end)

\* C11: every key strictly between the end of one retained range and the
\* start of the next makes GetValue fail with KeyExcluded.
C11_KeyExcluded ==
    \A i \in 1 .. (Len(ranges) - 1) : \A key \in RT :
        StrictlyBetween(key, ranges[i], ranges[i + 1])
            => GetValueOf(ranges, key).err = "KeyExcluded"

\* key lies inside the closed range rv = [start, end], both ends included
InsideClosed(key, rv) == SubRT(key, rv.start) <= SubRT(rv.end, rv.start)

\* C12: every key inside a retained closed range gets exactly that range's
\* value from GetValue, with no error.
C12_ClosedLookup ==
    \A i \in 1 .. (Len(ranges) - 1) : \A key \in RT :
        InsideClosed(key, ranges[i])
            => GetValueOf(ranges, key) = [val |-> ranges[i].value, err |-> "nil"]

\* C13: right after ClearAndResetValue(v) the map holds the single record
\* {start 0, value v} and GetValue returns v with no error for every key.
C13_ResetSemantics ==
    last.op = "ClearAndResetValue" =>
        /\ Len(ranges) = 1
        /\ ranges[1].start = 0
        /\ ranges[1].value = last.arg
        /\ \A key \in RT : GetValueOf(ranges, key) = [val |-> last.arg, err |-> "nil"]

\* C13 witness: a reset to a nonzero value after two earlier calls.
C13_Witness ==
    /\ last.op = "ClearAndResetValue"
    /\ last.arg = VTMod - 1
    /\ ops >= 2

\* C14: GetValue is a pure query: a call leaves the ranges list (and the
\* capacity) unchanged, so every key gets the same answer after it as before.
C14_GetValuePure ==
    [][last'.op = "GetValue" =>
          /\ ranges' = ranges
          /\ size' = size
          /\ \A key \in RT : GetValueOf(ranges', key) = GetValueOf(ranges, key)]_vars

\* C14 witness: GetValue has returned the value of a range of a map that
\* holds closed ranges.
C14_Witness ==
    /\ last.op = "GetValue"
    /\ last.err = "nil"
    /\ Len(ranges) >= 2

\* C15: DecValue(dec) changes nothing but the value of the last record, from
\* which it subtracts dec; and no ExcludeRange or DecValue changes a record
\* that is already closed: the closed records that prune does not drop are
\* found unchanged and in the same order afterwards.
C15_ClosedImmutable ==
    [][/\ last'.op = "DecValue" =>
             /\ Len(ranges') = Len(ranges)
             /\ \A i \in 1 .. (Len(ranges) - 1) : ranges'[i] = ranges[i]
             /\ ranges'[Len(ranges)].start = ranges[Len(ranges)].start
             /\ ranges'[Len(ranges)].end = ranges[Len(ranges)].end
             /\ ranges'[Len(ranges)].value = SubVT(ranges[Len(ranges)].value, last'.arg)
       /\ last'.op \in {"DecValue", "ExcludeRange"} =>
             \A i \in (last'.dropped + 1) .. (Len(ranges) - 1) :
                 ranges'[i - last'.dropped] = ranges[i]]_vars

\* C15 witness: a nonzero DecValue on a map that holds a closed range.
C15_Witness ==
    /\ last.op = "DecValue"
    /\ last.arg # 0
    /\ Len(ranges) >= 2

C17_Merge ==
    [][(last'.op = "ExcludeRange" /\ last'.err = "nil" /\ last'.s = Open.start) =>
          LET n == Len(ranges) IN
          /\ Len(ranges') = n
          /\ \A i \in 1 .. (n - 1) : ranges'[i] = ranges[i]
          /\ ranges'[n].start = last'.e
          /\ ranges'[n].value = (Open.value + SubRT(last'.e, last'.s)) % VTMod]_vars

\* C17 witness: a merge has just moved the open range of a map that holds a
\* closed range.
C17_Witness ==
    /\ last.op = "ExcludeRange"
    /\ last.effect = "merge"
    /\ Len(ranges) >= 2
    /\ Open.value > ranges[Len(ranges) - 1].value

\* C18: an accepted ExcludeRange(s, e) whose s differs from the open range's
\* start turns the open range into a closed one with the same start and
\* value and end s - 1, and appends the new open range {start e, value old
\* open value + (e - s)} as the last record.
C18_Split ==
    [][(last'.op = "ExcludeRange" /\ last'.err = "nil" /\ last'.s # Open.start) =>
          LET m == Len(ranges') IN
          /\ m >= 2
          /\ ranges'[m - 1].start = Open.start
          /\ ranges'[m - 1].end = SubRT(last'.s, 1)
          /\ ranges'[m - 1].value = Open.value
          /\ ranges'[m].start = last'.e
          /\ ranges'[m].value = (Open.value + SubRT(last'.e, last'.s)) % VTMod]_vars

\* C18 witness: a split on a fresh open range: one closed record starting at
\* 0 and an open range with a larger value after it.
C18_Witness ==
    /\ last.op = "ExcludeRange"
    /\ last.effect = "split"
    /\ last.dropped = 0
    /\ Len(ranges) = 2
    /\ ranges[1].start = 0
    /\ Open.value > ranges[1].value

\* C19: when a split pushes the list past capacity + 1 records, the list
\* ExcludeRange leaves is exactly the last capacity + 1 records of the
\* un-pruned list, in the same order and unchanged; otherwise nothing is
\* dropped.
C19_PruneTruncates ==
    [][(last'.op = "ExcludeRange" /\ last'.effect = "split") =>
          LET un == SplitOpen(ranges, last'.s, last'.e) IN
          IF Len(un) > size + 1
          THEN /\ Len(ranges') = size + 1
               /\ \A i \in 1 .. (size + 1) : ranges'[i] = un[Len(un) - (size + 1) + i]
          ELSE ranges' = un]_vars

\* C19 witness: the third split on a map of capacity 2 has dropped the
\* oldest record.
C19_Witness ==
    /\ last.op = "ExcludeRange"
    /\ last.dropped = 1
    /\ size = 2
    /\ Len(ranges) = 3

\* the number of keys from key forward to the open range's start: 0 for a
\* key on or after the start in circular order
Behind(key) == IF OnOrAfter(key, Open.start) THEN 0 ELSE SubRT(Open.start, key)

RECURSIVE WidthsBefore(_, _)
\* the sum of the widths of the exclusions of ex that end at least d keys
\* behind the open range's start
WidthsBefore(ex, d) ==
    IF ex = << >> THEN 0
    ELSE (IF Head(ex).back >= d THEN Head(ex).width ELSE 0) + WidthsBefore(Tail(ex), d)

\* C20: while no DecValue lowered the value and no addition wrapped since the
\* last initRanges(v0), the open range's value is v0 plus the sum of all
\* accepted widths, and every value GetValue(k) returns is v0 plus the sum of
\* the widths of the accepted exclusions that lie before k.
C20_CumulativeTranslation ==
    ~adjusted =>
        /\ Open.value = v0 + WidthsBefore(excluded, 0)
        /\ \A k \in RT :
              GetValueOf(ranges, k).err = "nil" =>
                  GetValueOf(ranges, k).val = v0 + WidthsBefore(excluded, Behind(k))
====
